---------------------------- MODULE Spec2Model ----------------------------
(***************************************************************************)
(* A model of rtl-sdr-audio.c: main's setup / streaming / shutdown path,   *)
(* the signal handler, and the per-buffer callback that decimates the raw  *)
(* I/Q bytes and writes the result to the ALSA sink.                       *)
(*                                                                         *)
(* Arithmetic.  The code works in double precision; the model works in     *)
(* exact scaled integers.  A raw byte b stands for (b - 127.5) / 127.5 =   *)
(* (2b - 255) / 255.  A sum of SDR_SAMPLE_RATIO such terms divided by      *)
(* SDR_SAMPLE_RATIO is  n / Denominator  with n the sum of the (2b - 255)  *)
(* and Denominator = 255 * SDR_SAMPLE_RATIO.  Every sample value of the    *)
(* model (i, q, a slot of g_audio_buffer) is such a numerator n; the       *)
(* magnitude a = sqrt(i*i + q*q) is carried as its square, the numerator   *)
(* of a*a over Denominator^2.  Floating point rounding is not modelled.    *)
(***************************************************************************)
EXTENDS Integers, Sequences, FiniteSets, TLC

(***************************************************************************)
(* Sizes.  AUDIO_BUFFER_LENGTH is 16384 in the source; the model scales it *)
(* down.  The other numbers are those of the source.                       *)
(***************************************************************************)
AUDIO_BUFFER_LENGTH == 2

AUDIO_CHANNELS == 2

SDR_SAMPLE_RATIO == 5

SDR_BUFFER_LENGTH == AUDIO_BUFFER_LENGTH * SDR_SAMPLE_RATIO * 2

EXIT_FAILURE == 1

\* Driver error codes a streaming read returns on its own: -MaxErr .. -1.
MaxErr == 2

\* Sink writes followed per run while no shutdown has been requested.
MaxWrites == 3

Denominator == 255 * SDR_SAMPLE_RATIO

(***************************************************************************)
(* Inputs.  A raw buffer is SDR_BUFFER_LENGTH bytes; each output frame's   *)
(* group of 2 * SDR_SAMPLE_RATIO bytes repeats one of a few byte patterns. *)
(***************************************************************************)
Patterns == << <<0>>, <<127, 128>>, <<255, 128>>, <<255, 0, 0>> >>

GroupLength == SDR_SAMPLE_RATIO * 2

PatternByte(p, n) == Patterns[p][(n % Len(Patterns[p])) + 1]

RawBuffers ==
    { [n \in 0 .. (SDR_BUFFER_LENGTH - 1) |->
          PatternByte(f[n \div GroupLength], n % GroupLength)] :
      f \in [0 .. (AUDIO_BUFFER_LENGTH - 1) -> DOMAIN Patterns] }

\* No buffer is being processed.
NoBuffer == [n \in {} |-> 0]

\* Lengths the source passes to the callback: the requested length, or a
\* short transfer.
Lengths == {SDR_BUFFER_LENGTH, SDR_BUFFER_LENGTH - 2}

\* Values of -c: 0 both, 1 left, 2 right; atoi accepts any other number too.
ChannelArgs == {0, 1, 2, 3}

OutputSlots == 0 .. (AUDIO_BUFFER_LENGTH * AUDIO_CHANNELS - 1)

DriverErrors == { -e : e \in 1 .. MaxErr }

(***************************************************************************)
(* sdr_callback's arithmetic, lines 86-99.                                 *)
(***************************************************************************)
SampleAmplitude_NoOffset(b) == 2 * (b % 256)

\* ((b & 0xFF) - 127.5) / 127.5, as a numerator over 255.
SampleAmplitude(b) == 2 * (b % 256) - 255

RawIndex_FrameStride(j, k, c) == (j * SDR_SAMPLE_RATIO) + (k * 2) + c

\* The raw index lines 89 (c = 0, an I byte) and 90 (c = 1, a Q byte) read
\* for frame j and inner step k.
RawIndex(j, k, c) == (j * SDR_SAMPLE_RATIO * 2) + (k * 2) + c

RECURSIVE SumSamples(_, _, _, _)
\* The inner loop, lines 88-91, for k = 0 .. upto-1, on component c of
\* frame j.
SumSamples(iq, j, c, upto) ==
    IF upto = 0 THEN 0
    ELSE SumSamples(iq, j, c, upto - 1)
           + SampleAmplitude(iq[RawIndex(j, upto - 1, c)])

sumI(iq, j) == SumSamples(iq, j, 0, SDR_SAMPLE_RATIO)

sumQ(iq, j) == SumSamples(iq, j, 1, SDR_SAMPLE_RATIO)

\* a * a for frame j, as a numerator over Denominator^2 (line 95).
Magnitude2(iq, j) == sumI(iq, j) * sumI(iq, j) + sumQ(iq, j) * sumQ(iq, j)

WritesLeft_AsRight(ch) == ch = 0 \/ ch = 2

\* Line 98's condition.
WritesLeft(ch) == ch = 0 \/ ch = 1

WritesRight_AsLeft(ch) == ch = 0 \/ ch = 1

\* Line 99's condition.
WritesRight(ch) == ch = 0 \/ ch = 2

\* The value lines 98-99 store: q.
StoredSample(iq, j) == sumQ(iq, j)

StoreFrame_Accumulate(out, iq, j, ch) ==
    [s \in OutputSlots |->
        IF s = j * 2 /\ (ch = 0 \/ ch = 1) THEN out[s] + sumQ(iq, j)
        ELSE IF s = j * 2 + 1 /\ (ch = 0 \/ ch = 2) THEN out[s] + sumQ(iq, j)
        ELSE out[s]]

\* The index line 98 stores to.
LeftSlot(j) == j * 2

\* The index line 99 stores to.
RightSlot(j) == (j * 2) + 1

\* One pass of the outer loop body, lines 93-99, on the buffer `out`.
StoreFrame(out, iq, j, ch) ==
    [s \in OutputSlots |->
        IF s = LeftSlot(j) /\ WritesLeft(ch) THEN StoredSample(iq, j)
        ELSE IF s = RightSlot(j) /\ WritesRight(ch) THEN StoredSample(iq, j)
        ELSE out[s]]

InitialPeak_Stale(prev) == prev

\* maxA = 0, lines 78 and 85.
InitialPeak(prev) == 0

Max(x, y) == IF x > y THEN x ELSE y

RECURSIVE FrameLoop(_, _, _, _, _)
\* The outer loop, lines 86-100, from frame j on: the output buffer and the
\* square of maxA it ends with.
FrameLoop(j, iq, ch, out, mx) ==
    IF j >= AUDIO_BUFFER_LENGTH THEN [buffer |-> out, maxA2 |-> mx]
    ELSE FrameLoop(j + 1, iq, ch, StoreFrame(out, iq, j, ch),
                   Max(mx, Magnitude2(iq, j)))

\* (int)(maxA * 30), line 102.  maxA * 30 = 30 * sqrt(a2) / Denominator
\* = 2 * sqrt(a2) / (17 * SDR_SAMPLE_RATIO); the cast truncates.
PeakWidth(a2) ==
    LET d == 17 * SDR_SAMPLE_RATIO
    IN  CHOOSE w \in 0 .. 128 :
            /\ (w * d) * (w * d) <= 4 * a2
            /\ ((w + 1) * d) * ((w + 1) * d) > 4 * a2

(***************************************************************************)
(* State.                                                                  *)
(***************************************************************************)
VARIABLES
    pc,              \* main's position
    audio_channel,   \* static int audio_channel (line 41)
    do_exit,         \* static int do_exit (line 55)
    sdr_dev,         \* the tuner handle: "NULL", "open" or "closed"
    async_status,    \* the tuner's streaming state: "inactive", "running", "canceling"
    g_audio_handle,  \* the sink: "none", "open", "configured", "drained", "closed"
    r,               \* main's r, the streaming read's return value
    cause,           \* what line 199 or 200 printed: "none", "user", "library"
    exit_status,     \* the process exit status, -1 while running
    cb_pc,           \* sdr_callback's position: "idle", "entry", "print", "write"
    iqBuffer,        \* sdr_callback's iqBuffer argument
    len,             \* sdr_callback's len argument
    g_audio_buffer,  \* float g_audio_buffer[] (line 38), as numerators
    maxA2,           \* the square of sdr_callback's maxA, as a numerator
    meter,           \* the field width line 102 last printed, -1 before any
    n_writes,        \* snd_pcm_writei calls made so far
    last_cb,         \* how the last finished callback ended: "none", "noop", "written"
    pcm_frames,      \* the frame count of the last snd_pcm_writei call, 0 before any
    n_processed,     \* invocations that went past line 83 so far
    writes_after_exit, \* snd_pcm_writei calls made with do_exit set
    handler_io,      \* sighandler has printed to stderr (line 71)
    cancel_target,   \* sdr_dev at the last rtlsdr_cancel_async call, "none" before any
    setup_failed,    \* a setup call of the sink or the tuner has failed
    released         \* calls made so far of rtlsdr_close, snd_pcm_drain, snd_pcm_close

vars == << pc, audio_channel, do_exit, sdr_dev, async_status, g_audio_handle,
           r, cause, exit_status, cb_pc, iqBuffer, len, g_audio_buffer, maxA2,
           meter, n_writes, last_cb, pcm_frames, n_processed,
           writes_after_exit, handler_io, cancel_target, setup_failed,
           released >>

mainVars == << pc, audio_channel, sdr_dev, g_audio_handle, r, cause,
               exit_status, setup_failed, released >>

callbackVars == << cb_pc, iqBuffer, len, g_audio_buffer, maxA2, meter,
                   n_writes, last_cb, pcm_frames, n_processed,
                   writes_after_exit >>

signalVars == << do_exit, handler_io, cancel_target >>

\* The statics' initial values and main's first line.
Init ==
    /\ pc = "start"
    /\ audio_channel = 0
    /\ do_exit = 0
    /\ sdr_dev = "NULL"
    /\ async_status = "inactive"
    /\ g_audio_handle = "none"
    /\ r = 0
    /\ cause = "none"
    /\ exit_status = -1
    /\ cb_pc = "idle"
    /\ iqBuffer = NoBuffer
    /\ len = 0
    /\ g_audio_buffer = [s \in OutputSlots |-> 0]
    /\ maxA2 = 0
    /\ meter = -1
    /\ n_writes = 0
    /\ last_cb = "none"
    /\ pcm_frames = 0
    /\ n_processed = 0
    /\ writes_after_exit = 0
    /\ handler_io = FALSE
    /\ cancel_target = "none"
    /\ setup_failed = FALSE
    /\ released = [sdr |-> 0, drain |-> 0, pcm |-> 0]

(***************************************************************************)
(* The tuner library, as main and sighandler use it: rtlsdr_read_async     *)
(* blocks, calling sdr_callback once per buffer, until a cancel request    *)
(* takes effect or the driver fails; rtlsdr_cancel_async asks a streaming  *)
(* device to stop.                                                         *)
(***************************************************************************)
CancelAsync_Forced(dev, status) ==
    IF dev = "open" /\ status # "canceling" THEN "canceling" ELSE status

\* rtlsdr_cancel_async(sdr_dev), line 73: the streaming state it leaves.  A
\* cancel request takes effect on an open device that is streaming; on a
\* NULL handle or a device that is not streaming it changes nothing.
CancelAsync(dev, status) ==
    IF dev = "open" /\ status = "running" THEN "canceling" ELSE status

\* The streaming states line 73 can leave.  After rtlsdr_close sdr_dev
\* dangles: the call reads and may write the released device record, so
\* the state it leaves there is not determined.
CancelAsyncOutcomes(dev, status) ==
    IF dev = "closed" THEN {status, "canceling"}
    ELSE {CancelAsync(dev, status)}

(***************************************************************************)
(* sighandler, lines 70-74.  It runs on the thread it interrupts, to its   *)
(* end, at any point after the handlers are registered.                    *)
(***************************************************************************)
sighandler ==
    /\ pc \notin {"start", "exited"}
    /\ handler_io' = TRUE
    /\ do_exit' = 1
    /\ cancel_target' = sdr_dev
    /\ async_status' \in CancelAsyncOutcomes(sdr_dev, async_status)
    /\ UNCHANGED << mainVars, callbackVars >>

(***************************************************************************)
(* main, lines 106-208.                                                    *)
(***************************************************************************)
\* exit(code) or return code.
Exit(code) ==
    /\ pc' = "exited"
    /\ exit_status' = code

\* Lines 119-127.
RegisterHandlers ==
    /\ pc = "start"
    /\ pc' = "getopt"
    /\ UNCHANGED << audio_channel, sdr_dev, async_status, g_audio_handle, r,
                    cause, exit_status, setup_failed, released, signalVars,
                    callbackVars >>

\* Lines 129-153: -c sets audio_channel; an unknown option ends in usage().
ParseOptions ==
    /\ pc = "getopt"
    /\ \/ /\ \E c \in ChannelArgs : audio_channel' = c
          /\ pc' = "audio_open"
          /\ UNCHANGED exit_status
       \/ /\ Exit(1)
          /\ UNCHANGED audio_channel
    /\ UNCHANGED << sdr_dev, async_status, g_audio_handle, r, cause,
                    setup_failed, released, signalVars, callbackVars >>

\* Lines 156-159.
AudioOpen ==
    /\ pc = "audio_open"
    /\ \/ /\ g_audio_handle' = "open"
          /\ pc' = "audio_params"
          /\ UNCHANGED << exit_status, setup_failed >>
       \/ /\ setup_failed' = TRUE
          /\ Exit(EXIT_FAILURE)
          /\ UNCHANGED g_audio_handle
    /\ UNCHANGED << audio_channel, sdr_dev, async_status, r, cause, released,
                    signalVars, callbackVars >>

\* Lines 161-164.
AudioSetParams ==
    /\ pc = "audio_params"
    /\ \/ /\ g_audio_handle' = "configured"
          /\ pc' = "sdr_search"
          /\ UNCHANGED << exit_status, setup_failed >>
       \/ /\ setup_failed' = TRUE
          /\ Exit(EXIT_FAILURE)
          /\ UNCHANGED g_audio_handle
    /\ UNCHANGED << audio_channel, sdr_dev, async_status, r, cause, released,
                    signalVars, callbackVars >>

\* Lines 167-168.
DeviceSearch ==
    /\ pc = "sdr_search"
    /\ \/ /\ pc' = "sdr_open"
          /\ UNCHANGED << exit_status, setup_failed >>
       \/ /\ setup_failed' = TRUE
          /\ Exit(1)
    /\ UNCHANGED << audio_channel, sdr_dev, async_status, g_audio_handle, r,
                    cause, released, signalVars, callbackVars >>

\* Lines 170-174.
SdrOpen ==
    /\ pc = "sdr_open"
    /\ \/ /\ sdr_dev' = "open"
          /\ pc' = "sdr_configure"
          /\ UNCHANGED << exit_status, setup_failed >>
       \/ /\ setup_failed' = TRUE
          /\ Exit(1)
          /\ UNCHANGED sdr_dev
    /\ UNCHANGED << audio_channel, async_status, g_audio_handle, r, cause,
                    released, signalVars, callbackVars >>

\* Whether main goes on to line 197 after the verbose_* calls of lines
\* 176-194, given whether one of them failed: their results are not looked at.
ConfigureGoesOn(failed) == TRUE

\* Lines 176-194: sample rate, frequency, gain, ppm correction and buffer
\* reset; each call may fail.
SdrConfigure ==
    /\ pc = "sdr_configure"
    /\ \E failed \in BOOLEAN :
          /\ setup_failed' = failed
          /\ IF ConfigureGoesOn(failed)
             THEN pc' = "read_async" /\ UNCHANGED exit_status
             ELSE Exit(1)
    /\ UNCHANGED << audio_channel, sdr_dev, async_status, g_audio_handle, r,
                    cause, released, signalVars, callbackVars >>

\* Line 197, the call: the streaming read starts and main blocks in it.
ReadAsyncStart ==
    /\ pc = "read_async"
    /\ async_status' = "running"
    /\ pc' = "streaming"
    /\ UNCHANGED << audio_channel, sdr_dev, g_audio_handle, r, cause,
                    exit_status, setup_failed, released, signalVars,
                    callbackVars >>

\* The value line 197 assigns to r.
ReadAsyncResult(res) == res

\* Line 197, the return after a cancel request was honoured.
ReadAsyncCancelled ==
    /\ pc = "streaming"
    /\ async_status = "canceling"
    /\ cb_pc = "idle"
    /\ r' = ReadAsyncResult(0)
    /\ async_status' = "inactive"
    /\ pc' = "report"
    /\ UNCHANGED << audio_channel, sdr_dev, g_audio_handle, cause,
                    exit_status, setup_failed, released, signalVars,
                    callbackVars >>

\* Line 197, the return on a driver error.
ReadAsyncFailed ==
    /\ pc = "streaming"
    /\ cb_pc = "idle"
    /\ \E e \in DriverErrors : r' = ReadAsyncResult(e)
    /\ async_status' = "inactive"
    /\ pc' = "report"
    /\ UNCHANGED << audio_channel, sdr_dev, g_audio_handle, cause,
                    exit_status, setup_failed, released, signalVars,
                    callbackVars >>

\* Which of lines 199 and 200 prints.
CauseOf(flag, res) == IF flag # 0 THEN "user" ELSE "library"

NextAfterReport_SkipOnError(res) == IF res < 0 THEN "return" ELSE "sdr_close"

\* Where main goes after lines 199-200: line 202, whatever r is.
NextAfterReport(res) == "sdr_close"

\* Lines 199-200.
ReportCause ==
    /\ pc = "report"
    /\ cause' = CauseOf(do_exit, r)
    /\ pc' = NextAfterReport(r)
    /\ UNCHANGED << audio_channel, sdr_dev, async_status, g_audio_handle, r,
                    exit_status, setup_failed, released, signalVars,
                    callbackVars >>

\* Line 202.
SdrClose ==
    /\ pc = "sdr_close"
    /\ sdr_dev' = "closed"
    /\ released' = [released EXCEPT !.sdr = @ + 1]
    /\ pc' = "drain"
    /\ UNCHANGED << audio_channel, async_status, g_audio_handle, r, cause,
                    exit_status, setup_failed, signalVars, callbackVars >>

\* Line 204.
AudioDrain ==
    /\ pc = "drain"
    /\ g_audio_handle' = "drained"
    /\ released' = [released EXCEPT !.drain = @ + 1]
    /\ pc' = "audio_close"
    /\ UNCHANGED << audio_channel, sdr_dev, async_status, r, cause,
                    exit_status, setup_failed, signalVars, callbackVars >>

\* Line 205.
AudioClose ==
    /\ pc = "audio_close"
    /\ g_audio_handle' = "closed"
    /\ released' = [released EXCEPT !.pcm = @ + 1]
    /\ pc' = "return"
    /\ UNCHANGED << audio_channel, sdr_dev, async_status, r, cause,
                    exit_status, setup_failed, signalVars, callbackVars >>

\* Line 207's expression.
ExitCode(res, flag) == IF res >= 0 THEN res ELSE -res

\* Line 207.
Return ==
    /\ pc = "return"
    /\ Exit(ExitCode(r, do_exit))
    /\ UNCHANGED << audio_channel, sdr_dev, async_status, g_audio_handle, r,
                    cause, setup_failed, released, signalVars, callbackVars >>

(***************************************************************************)
(* sdr_callback, lines 76-104, called by the streaming read on main's      *)
(* thread, one call at a time.                                             *)
(***************************************************************************)
\* What sdr_callback leaves of main's state alone: all but the sink.
mainButSink == << pc, audio_channel, sdr_dev, r, cause, exit_status,
                  setup_failed, released >>

\* The streaming read hands a filled buffer to the callback.  A buffer
\* already in flight is still delivered after a cancel request.
SourceDeliver ==
    /\ pc = "streaming"
    /\ async_status \in {"running", "canceling"}
    /\ cb_pc = "idle"
    /\ do_exit # 0 \/ n_writes < MaxWrites
    /\ \E b \in RawBuffers, l \in Lengths :
          /\ iqBuffer' = b
          /\ len' = l
    /\ cb_pc' = "entry"
    /\ UNCHANGED << mainVars, signalVars, async_status, g_audio_buffer, maxA2,
                    meter, n_writes, last_cb, pcm_frames, n_processed,
                    writes_after_exit >>

Cancelled_Never(flag) == FALSE

\* Line 83's condition.
Cancelled(flag) == flag # 0

\* Lines 83-100: the flag check and, past it, the frame loop.
CallbackProcess ==
    /\ cb_pc = "entry"
    /\ IF Cancelled(do_exit)
       THEN /\ cb_pc' = "idle"
            /\ iqBuffer' = NoBuffer
            /\ len' = 0
            /\ last_cb' = "noop"
            /\ UNCHANGED << g_audio_buffer, maxA2, n_processed >>
       ELSE LET res == FrameLoop(0, iqBuffer, audio_channel, g_audio_buffer,
                                 InitialPeak(maxA2))
            IN  /\ g_audio_buffer' = res.buffer
                /\ maxA2' = res.maxA2
                /\ n_processed' = n_processed + 1
                /\ cb_pc' = "print"
                /\ UNCHANGED << iqBuffer, len, last_cb >>
    /\ UNCHANGED << mainVars, signalVars, async_status, meter, n_writes,
                    pcm_frames, writes_after_exit >>

\* Line 102.
CallbackPrint ==
    /\ cb_pc = "print"
    /\ meter' = PeakWidth(maxA2)
    /\ cb_pc' = "write"
    /\ UNCHANGED << mainVars, signalVars, async_status, iqBuffer, len,
                    g_audio_buffer, maxA2, n_writes, last_cb, pcm_frames,
                    n_processed, writes_after_exit >>

\* Whether sdr_callback stops the stream after snd_pcm_writei left the sink
\* in state `sink`: line 103 drops the call's result.
WriteStops(sink) == FALSE

\* The states snd_pcm_writei can leave the sink in: it accepts the frames,
\* or it fails with an underrun; once in underrun every further write fails,
\* since nothing recovers the sink.
WriteOutcomes(sink) ==
    IF sink = "xrun" THEN {"xrun"} ELSE {sink, "xrun"}

WriteLength_Samples == AUDIO_BUFFER_LENGTH * AUDIO_CHANNELS

\* The frame count line 103 passes to snd_pcm_writei.
WriteLength == AUDIO_BUFFER_LENGTH

\* Lines 103-104: the blocking write of the whole buffer, then the return.
CallbackWrite ==
    /\ cb_pc = "write"
    /\ \E sink \in WriteOutcomes(g_audio_handle) :
          /\ g_audio_handle' = sink
          /\ async_status' = IF WriteStops(sink) /\ async_status = "running"
                             THEN "canceling" ELSE async_status
    /\ pcm_frames' = WriteLength
    /\ n_writes' = n_writes + 1
    /\ writes_after_exit' = IF do_exit # 0 THEN writes_after_exit + 1
                            ELSE writes_after_exit
    /\ cb_pc' = "idle"
    /\ iqBuffer' = NoBuffer
    /\ len' = 0
    /\ last_cb' = "written"
    /\ UNCHANGED << mainButSink, signalVars, g_audio_buffer, maxA2, meter,
                    n_processed >>

Next ==
    \/ sighandler
    \/ RegisterHandlers
    \/ ParseOptions
    \/ AudioOpen
    \/ AudioSetParams
    \/ DeviceSearch
    \/ SdrOpen
    \/ SdrConfigure
    \/ ReadAsyncStart
    \/ ReadAsyncCancelled
    \/ ReadAsyncFailed
    \/ ReportCause
    \/ SdrClose
    \/ AudioDrain
    \/ AudioClose
    \/ Return
    \/ SourceDeliver
    \/ CallbackProcess
    \/ CallbackPrint
    \/ CallbackWrite

Spec == Init /\ [][Next]_vars

(***************************************************************************)
(* Scheduling.  main runs on; while the read streams, the source keeps     *)
(* delivering buffers, the callback's blocking calls return, and a cancel  *)
(* request that took effect makes the read return after the buffers still  *)
(* in flight (strong fairness: the return waits for the callback to be     *)
(* idle).  Signals and driver errors may or may not come.                  *)
(***************************************************************************)
MainStep ==
    \/ RegisterHandlers
    \/ ParseOptions
    \/ AudioOpen
    \/ AudioSetParams
    \/ DeviceSearch
    \/ SdrOpen
    \/ SdrConfigure
    \/ ReadAsyncStart
    \/ ReportCause
    \/ SdrClose
    \/ AudioDrain
    \/ AudioClose
    \/ Return

CallbackStep ==
    \/ CallbackProcess
    \/ CallbackPrint
    \/ CallbackWrite

FairSpec ==
    /\ Spec
    /\ WF_vars(MainStep)
    /\ WF_vars(SourceDeliver)
    /\ WF_vars(CallbackStep)
    /\ SF_vars(ReadAsyncCancelled)

(***************************************************************************)
(* Properties.                                                             *)
(***************************************************************************)
\* The callback is past its flag check: the frame loop has run on iqBuffer.
Processed == cb_pc \in {"print", "write"}

Frames == 0 .. (AUDIO_BUFFER_LENGTH - 1)

\* The slots of frame j that audio_channel selects.
SelectedSlots(j) ==
    (IF audio_channel \in {0, 1} THEN {2 * j} ELSE {})
      \cup (IF audio_channel \in {0, 2} THEN {2 * j + 1} ELSE {})

\* C1: a callback invocation that finds do_exit set at its entry is a no-op:
\* no step taken while it stands at its entry changes g_audio_buffer, writes
\* to the sink or prints a peak indicator, and the invocation goes from its
\* entry straight to its return.
C1_CancelledCallbackIsNoOp ==
    [][(cb_pc = "entry" /\ do_exit # 0)
         => /\ cb_pc' \in {"entry", "idle"}
            /\ g_audio_buffer' = g_audio_buffer
            /\ n_writes' = n_writes
            /\ meter' = meter]_vars

\* C1's case: buffers were processed, shutdown was requested, and a later
\* invocation has returned as a no-op.
C1_Witness ==
    /\ do_exit # 0
    /\ last_cb = "noop"
    /\ n_writes > 0

\* C2: once a termination signal has been handled, at whatever point after
\* the handlers were registered, the process eventually terminates.
C2_SignalLeadsToTermination == (do_exit # 0) ~> (pc = "exited")

\* C3: when main returns from line 207, the exit status is 0 if do_exit was
\* set by the signal handler, and otherwise it is the non-zero error code the
\* streaming read returned.
C3_ExitStatusFollowsCause ==
    (pc = "exited" /\ cause # "none")
      => /\ do_exit # 0 => exit_status = 0
         /\ do_exit = 0 => (exit_status # 0 /\ exit_status = -r)

\* C4: an invocation whose len differs from SDR_BUFFER_LENGTH is rejected: it
\* does not go on to the frame loop, leaves g_audio_buffer as it is and
\* writes nothing to the sink.
C4_MismatchedLengthRejected ==
    [][(cb_pc = "entry" /\ len # SDR_BUFFER_LENGTH)
         => /\ cb_pc' \in {"entry", "idle"}
            /\ g_audio_buffer' = g_audio_buffer
            /\ n_writes' = n_writes]_vars

\* C5: after the frame loop of a non-cancelled invocation, each selected slot
\* of each frame j holds the magnitude a of that frame: a value >= 0 whose
\* square is I*I + Q*Q.
C5_StoresMagnitude ==
    Processed
      => \A j \in Frames : \A s \in SelectedSlots(j) :
            /\ g_audio_buffer[s] >= 0
            /\ g_audio_buffer[s] * g_audio_buffer[s] = Magnitude2(iqBuffer, j)

\* C6 as stated: for a buffer of the expected length, the magnitude of every
\* frame, and so the peak the loop computed, is at most 1: I*I + Q*Q <= 1.
C6_MagnitudeAtMostOne ==
    (Processed /\ len = SDR_BUFFER_LENGTH)
      => /\ \A j \in Frames :
               Magnitude2(iqBuffer, j) <= Denominator * Denominator
         /\ maxA2 <= Denominator * Denominator

\* C6 as amended: for a buffer of the expected length, the magnitude of every
\* frame, and so the peak the loop computed, lies in [0, sqrt(2)]:
\* 0 <= I*I + Q*Q <= 2, with I and Q each in [-1, 1].
C6_MagnitudeAtMostSqrt2 ==
    (Processed /\ len = SDR_BUFFER_LENGTH)
      => /\ \A j \in Frames :
               /\ sumI(iqBuffer, j) \in (-Denominator) .. Denominator
               /\ sumQ(iqBuffer, j) \in (-Denominator) .. Denominator
               /\ Magnitude2(iqBuffer, j) \in
                      0 .. (2 * Denominator * Denominator)
         /\ maxA2 \in 0 .. (2 * Denominator * Denominator)

\* C6's case: a buffer of the expected length has been processed and the
\* peak the loop computed is above 1.
C6_Witness ==
    /\ cb_pc = "write"
    /\ len = SDR_BUFFER_LENGTH
    /\ maxA2 > Denominator * Denominator

\* C7: every sample in g_audio_buffer, and so every sample handed to the
\* sink, is in [0, 1].
C7_SamplesInUnitRange ==
    \A s \in OutputSlots : g_audio_buffer[s] \in 0 .. Denominator

\* C8: with audio_channel = 1 no step changes a right slot (2j+1); with
\* audio_channel = 2 no step changes a left slot (2j); with audio_channel = 0
\* the two slots of every frame are equal after every step.
C8_ChannelRouting ==
    [][/\ audio_channel = 1
            => \A j \in Frames :
                  g_audio_buffer'[2 * j + 1] = g_audio_buffer[2 * j + 1]
       /\ audio_channel = 2
            => \A j \in Frames :
                  g_audio_buffer'[2 * j] = g_audio_buffer[2 * j]
       /\ audio_channel' = 0
            => \A j \in Frames :
                  g_audio_buffer'[2 * j] = g_audio_buffer'[2 * j + 1]]_vars

\* C8's case: in Left mode an invocation has written the left slots and the
\* right slots are as they were at the start.
C8_Witness ==
    /\ audio_channel = 1
    /\ last_cb = "written"
    /\ \A j \in Frames :
          /\ g_audio_buffer[2 * j] # 0
          /\ g_audio_buffer[2 * j + 1] = 0

\* What an invocation hands to the sink as a function of audio_channel and
\* the raw buffer alone: q of frame j in the slots the mode selects, the
\* buffer's initial 0 in the others.
OutputOf(ch, iq) ==
    [s \in OutputSlots |->
        IF (s % 2 = 0 /\ ch \in {0, 1}) \/ (s % 2 = 1 /\ ch \in {0, 2})
        THEN sumQ(iq, s \div 2)
        ELSE 0]

\* C9: what a non-cancelled invocation hands to the sink is determined by
\* audio_channel and the raw buffer alone, whatever was processed before:
\* so two invocations given the same raw buffer hand the same contents over.
C9_OutputDeterminedByInput ==
    cb_pc = "write" => g_audio_buffer = OutputOf(audio_channel, iqBuffer)

\* C9's case: an invocation is about to hand over its output after two
\* earlier invocations have written theirs, and the buffer it overwrote held
\* other contents.
C9_Witness ==
    /\ cb_pc = "write"
    /\ n_writes >= 2
    /\ audio_channel = 1
    /\ \E b \in RawBuffers :
          /\ b # iqBuffer
          /\ OutputOf(audio_channel, b) # g_audio_buffer

\* The largest I*I + Q*Q over the frames of a raw buffer.
PeakOf(iq) ==
    CHOOSE m \in { Magnitude2(iq, j) : j \in Frames } :
        \A j \in Frames : Magnitude2(iq, j) <= m

\* C10: the peak an invocation reports is the largest magnitude among the
\* frames of that invocation's buffer, whatever earlier invocations reported.
C10_PeakIsPerInvocation ==
    cb_pc = "write"
      => /\ maxA2 = PeakOf(iqBuffer)
         /\ meter = PeakWidth(PeakOf(iqBuffer))

\* C10's case: the loop of this invocation has ended with a peak below the
\* one the previous invocation reported.
C10_Witness ==
    /\ cb_pc = "print"
    /\ n_writes > 0
    /\ PeakWidth(maxA2) < meter

\* C11: each non-cancelled invocation performs exactly one write to the sink,
\* of AUDIO_BUFFER_LENGTH frames holding the output of its own raw buffer,
\* and returns only with that write; the k-th write is the write of the k-th
\* processed buffer, and a buffer is processed only when every earlier one
\* has been written, so none is skipped, duplicated, queued or reordered.
C11_OneWritePerInvocationInOrder ==
    [][/\ n_writes' # n_writes
            => /\ cb_pc = "write"
               /\ cb_pc' = "idle"
               /\ n_writes' = n_writes + 1
               /\ n_writes' = n_processed
               /\ pcm_frames' = AUDIO_BUFFER_LENGTH
               /\ g_audio_buffer = OutputOf(audio_channel, iqBuffer)
               /\ g_audio_buffer' = g_audio_buffer
       /\ (Processed /\ cb_pc' = "idle") => n_writes' = n_writes + 1
       /\ n_processed' # n_processed
            => /\ n_processed = n_writes
               /\ n_processed' = n_processed + 1
               /\ cb_pc = "entry"
       /\ (n_processed' - n_writes') \in {0, 1}]_vars

\* C11's case: two invocations in a row have each processed their buffer and
\* returned from their write of the full buffer.
C11_Witness ==
    /\ cb_pc = "idle"
    /\ last_cb = "written"
    /\ n_writes >= 2
    /\ n_processed = n_writes
    /\ pcm_frames = AUDIO_BUFFER_LENGTH

\* C12: sighandler does nothing but store do_exit and request the cancel: it
\* performs no stream I/O, so no run of it has written to stderr.
C12_HandlerOnlyStoresAndCancels == handler_io = FALSE

\* C13: a signal that arrives while an invocation is past its flag check
\* leaves the invocation as it is; the invocation can always take its next
\* step, which leads from the frame loop to the print and from the print to
\* the write of its output; and at most one sink write happens after do_exit
\* was set.
C13_InFlightInvocationCompletes ==
    /\ [](Processed => ENABLED CallbackStep)
    /\ [][/\ do_exit' # do_exit => UNCHANGED callbackVars
          /\ cb_pc = "print" => cb_pc' \in {"print", "write"}
          /\ (cb_pc = "write" /\ cb_pc' # "write")
               => /\ n_writes' = n_writes + 1
                  /\ g_audio_buffer = OutputOf(audio_channel, iqBuffer)
          /\ writes_after_exit' <= 1]_vars

\* C13's case: the signal arrived while an invocation was past its flag
\* check, and that invocation has since returned from its sink write.
C13_Witness ==
    /\ do_exit # 0
    /\ writes_after_exit = 1
    /\ cb_pc = "idle"
    /\ last_cb = "written"

\* C14: once the streaming read has returned, by cancellation or by a driver
\* error, main reaches its exit with the sink drained once and the device and
\* the sink each released once; none of the three happens twice; the drain
\* happens only after the read has returned, and no sink write follows the
\* drain or the close.
C14_CleanupExactlyOnce ==
    /\ [](/\ released.sdr <= 1 /\ released.drain <= 1 /\ released.pcm <= 1
          /\ released.drain <= released.sdr
          /\ released.pcm <= released.drain
          /\ released.sdr = 1
               => (cause # "none" /\ async_status # "running"
                     /\ cb_pc = "idle"
                     /\ pc \in {"drain", "audio_close", "return", "exited"})
          /\ (pc \in {"return", "exited"} /\ cause # "none")
               => (released.sdr = 1 /\ released.drain = 1
                     /\ released.pcm = 1)
          /\ pc = "return" => cause # "none")
    /\ [][(g_audio_handle = "drained" \/ g_audio_handle = "closed")
             => n_writes' = n_writes]_vars

\* C14's case: the read returned on a driver error after buffers had been
\* written, and main has exited with everything drained and released.
C14_Witness ==
    /\ pc = "exited"
    /\ cause = "library"
    /\ r < 0
    /\ n_writes > 0
    /\ released = [sdr |-> 1, drain |-> 1, pcm |-> 1]

\* C15: the cause printed at termination is the cause of the read's return:
\* "User cancel" if and only if the read returned on a cancel request
\* (r >= 0), "Library error" if and only if it returned on a driver error
\* (r < 0).
C15_PrintedCauseIsActualCause ==
    cause # "none"
      => /\ cause = "user" <=> r >= 0
         /\ cause = "library" <=> r < 0

\* C16: once a setup step has failed, the streaming read is never started
\* and sdr_callback is never invoked: main is not at or past line 197's read
\* and no invocation has begun.
C16_SetupFailureExitsBeforeStreaming ==
    setup_failed
      => /\ pc \notin {"streaming", "report", "sdr_close", "drain",
                       "audio_close", "return"}
         /\ async_status = "inactive"
         /\ cause = "none"
         /\ cb_pc = "idle"
         /\ last_cb = "none"

\* C17: once a sink write has failed, the stream is over: no later raw
\* buffer is processed, and none is written.
C17_WriteFailureStopsStream ==
    g_audio_handle = "xrun" => ~Processed

\* C18: rtlsdr_cancel_async is only ever called on a device that has been
\* opened and not yet closed.
C18_CancelOnlyOnOpenDevice == cancel_target \in {"none", "open"}

\* C19: with audio_channel = 1 every right slot, and with audio_channel = 2
\* every left slot, holds its initial 0 in every reachable state.
C19_UnselectedSlotStaysZero ==
    /\ audio_channel = 1
         => \A j \in Frames : g_audio_buffer[RightSlot(j)] = 0
    /\ audio_channel = 2
         => \A j \in Frames : g_audio_buffer[LeftSlot(j)] = 0

\* C19's case: in Right mode two invocations have written the right slots
\* and the left slots still hold 0.
C19_Witness ==
    /\ audio_channel = 2
    /\ n_writes >= 2
    /\ last_cb = "written"
    /\ \A j \in Frames :
          /\ g_audio_buffer[RightSlot(j)] # 0
          /\ g_audio_buffer[LeftSlot(j)] = 0

\* The reads of the frame loop: frame, sample within the frame, I (0) or Q (1).
RawReads == Frames \X (0 .. (SDR_SAMPLE_RATIO - 1)) \X {0, 1}

\* C20: in a non-cancelled invocation with len = SDR_BUFFER_LENGTH every raw
\* index read is below SDR_BUFFER_LENGTH and every raw byte is read exactly
\* once; every g_audio_buffer index written is below
\* AUDIO_BUFFER_LENGTH * AUDIO_CHANNELS; and g_audio_buffer always has that
\* many slots.
C20_IndexBounds ==
    /\ DOMAIN g_audio_buffer = 0 .. (AUDIO_BUFFER_LENGTH * AUDIO_CHANNELS - 1)
    /\ (Processed /\ len = SDR_BUFFER_LENGTH)
         => /\ \A t \in RawReads :
                  /\ RawIndex(t[1], t[2], t[3]) \in 0 .. (len - 1)
                  /\ RawIndex(t[1], t[2], t[3]) \in DOMAIN iqBuffer
            /\ \A n \in 0 .. (len - 1) :
                  Cardinality({ t \in RawReads :
                                  RawIndex(t[1], t[2], t[3]) = n }) = 1
            /\ \A j \in Frames :
                  /\ LeftSlot(j) \in 0 .. (AUDIO_BUFFER_LENGTH * AUDIO_CHANNELS - 1)
                  /\ RightSlot(j) \in 0 .. (AUDIO_BUFFER_LENGTH * AUDIO_CHANNELS - 1)
                  /\ LeftSlot(j) # RightSlot(j)

\* C20's case: an invocation with a buffer of the expected length has run the
\* frame loop, whose last read was of the buffer's last byte and whose last
\* store was to the buffer's last slot.
C20_Witness ==
    /\ cb_pc = "write"
    /\ len = SDR_BUFFER_LENGTH
    /\ RawIndex(AUDIO_BUFFER_LENGTH - 1, SDR_SAMPLE_RATIO - 1, 1) = len - 1
    /\ RightSlot(AUDIO_BUFFER_LENGTH - 1)
         = AUDIO_BUFFER_LENGTH * AUDIO_CHANNELS - 1

=============================================================================
